---- MODULE Spec2Model ----
(***************************************************************************)
(* DanceMovementAnalyzer (app/video_processor.py): one job run through     *)
(* process_video_with_retry, which calls process_video once per attempt.   *)
(* The video source, the writer, the pose estimator and the file system    *)
(* are the environment: every call on them that can fail does so           *)
(* nondeterministically.                                                   *)
(* Spec is that job; SpecValidate runs _validate_video_file step by step,  *)
(* SpecCodec runs _get_output_codec, SpecRepeat calls process_video        *)
(* repeatedly on one video, SpecStream calls it on a stream fixed in       *)
(* advance, SpecOutput follows its output path, SpecApi is the analyze,    *)
(* download and cleanup endpoints of app/main.py for one job, SpecJobs is  *)
(* two jobs running process_video at the same time.                        *)
(***************************************************************************)
EXTENDS Integers, Sequences, FiniteSets

(* ------------------------------ bounds -------------------------------- *)

\* Largest number of frames the source delivers in one run, and largest
\* metadata frame count of a valid input.
MaxFrames == 2

\* Largest max_retries the caller passes.
MaxRetries == 3

\* Smallest max_retries the caller passes: the parameter is any int.
MinRetries == -1

\* Largest number of frames of a video that is processed repeatedly.
MaxScript == 2

\* Number of times process_video is called on that video.
MaxRuns == 2

\* Largest number of requests a client sends for one job.
MaxRequests == 4

(* ------------------------- program constants -------------------------- *)

MAX_VIDEO_DURATION == 600

MAX_FILE_SIZE_MB == 500

MAX_FPS == 240

BytesPerMB == 1048576

(* ------------------------------- state -------------------------------- *)

VARIABLES
    input,            \* the file at input_path, as os and cv2 report it
    max_retries,      \* argument of process_video_with_retry
    rpc,              \* position in process_video_with_retry
    attempt,          \* loop variable of "for attempt in range(max_retries)"
    last_error,       \* local last_error
    events,           \* history: attempts started and sleeps taken, in order
    outcome,          \* what process_video_with_retry gave its caller
    pc,               \* position in process_video
    cap,              \* input source handle of process_video
    out,              \* output writer handle of process_video
    pose,             \* pose estimator of _get_pose_detector
    pose_closes,      \* history: calls of pose.close() in this run
    total_frames,     \* local total_frames (metadata frame count)
    frame_count,      \* local frame_count
    detected_frames,  \* local detected_frames
    failed_frames,    \* local failed_frames
    keypoints_data,   \* local keypoints_data
    reads,            \* history: frames cap.read() delivered in this run
    decode_failures,  \* history: delivered frames that were None or empty
    written,          \* frames the writer accepted, in order
    dropped,          \* history: frames lost to the "except: pass" of line 367
    out_file,         \* the file at output_path after the writer is released
    result,           \* return value of process_video
    error,            \* exception process_video raised
    vfile,            \* _validate_video_file: the file at video_path
    vpc,              \* position in _validate_video_file
    vcap,             \* local cap of _validate_video_file
    vresult,          \* what _validate_video_file returned or raised
    extension,        \* _get_output_codec: suffix of output_path, lowered
    fourcc_env,       \* what cv2.VideoWriter_fourcc does for each codec
    tried,            \* codec_preferences entries the loop has passed
    codec_result,     \* what _get_output_codec returned or raised
    script,           \* repeated runs: what the source delivers, frame by frame
    run,              \* repeated runs: number of the process_video call
    prev_result,      \* repeated runs: what the call before returned
    opc,              \* output of process_video: position in process_video
    output_path,      \* local output_path (the suffix tells the paths apart)
    writer_path,      \* history: the path cv2.VideoWriter was opened on
    disk,             \* the file at each candidate output path
    reported,         \* result['output_file']
    api_files,        \* API: files of the job in uploads/ and outputs/
    api_log,          \* API: history of the requests answered and their status
    jobs,             \* concurrent jobs: locals of each job's process_video
    estimators,       \* concurrent jobs: every Pose instance created
    jscript,          \* concurrent jobs: what each job's source delivers
    self_pose         \* concurrent jobs: attribute self.pose of each analyzer

retryVars == <<max_retries, rpc, attempt, last_error, events, outcome>>

runVars == <<pc, cap, out, pose, pose_closes, total_frames, frame_count,
             detected_frames, failed_frames, keypoints_data, reads,
             decode_failures, written, dropped, out_file, result, error>>

valVars == <<vfile, vpc, vcap, vresult>>

codecVars == <<extension, fourcc_env, tried, codec_result>>

repeatVars == <<script, run, prev_result>>

\* The state of the functions process_video_with_retry does not run itself.
outVars == <<opc, output_path, writer_path, disk, reported>>

apiVars == <<api_files, api_log>>

jobVars == <<jobs, estimators, jscript, self_pose>>

moreVars == <<outVars, apiVars, jobVars>>

aux == <<valVars, codecVars, repeatVars, moreVars>>

vars == <<input, retryVars, runVars, aux>>

NoValue == [none |-> TRUE]

(* ----------------------- _validate_video_file ------------------------- *)

\* A file as _validate_video_file sees it.
VideoFile(exists, size, opens, fps, frames, width, height) ==
    [exists |-> exists, size |-> size, opens |-> opens, fps |-> fps,
     frame_count |-> frames, width |-> width, height |-> height]

ValidFile(n) == VideoFile(TRUE, BytesPerMB, TRUE, 30, n, 640, 480)

Inputs ==
    { ValidFile(n) : n \in 1..MaxFrames } \cup
    { VideoFile(FALSE, 0, FALSE, 0, 0, 0, 0),                   \* missing
      VideoFile(TRUE, 0, FALSE, 0, 0, 0, 0),                    \* 0 bytes
      VideoFile(TRUE, 501 * BytesPerMB, TRUE, 30, 1, 640, 480), \* oversized
      VideoFile(TRUE, 14, FALSE, 0, 0, 0, 0),                   \* corrupted
      VideoFile(TRUE, BytesPerMB, TRUE, 30, 0, 640, 480) }      \* no frames

\* validate_video_file without the frame count check of lines 145-146.
validate_video_file_any_count(f) ==
    IF ~f.exists THEN "not_found"
    ELSE IF f.size > MAX_FILE_SIZE_MB * BytesPerMB THEN "too_large"
    ELSE IF f.size = 0 THEN "empty"
    ELSE IF ~f.opens THEN "cannot_open"
    ELSE IF f.fps <= 0 \/ f.fps > MAX_FPS THEN "invalid_fps"
    ELSE IF f.width <= 0 \/ f.height <= 0 THEN "invalid_resolution"
    ELSE IF f.frame_count > MAX_VIDEO_DURATION * f.fps THEN "too_long"
    ELSE "ok"

\* validate_video_file without the upper limit on fps of line 142.
validate_video_file_no_fps_cap(f) ==
    IF ~f.exists THEN "not_found"
    ELSE IF f.size > MAX_FILE_SIZE_MB * BytesPerMB THEN "too_large"
    ELSE IF f.size = 0 THEN "empty"
    ELSE IF ~f.opens THEN "cannot_open"
    ELSE IF f.fps <= 0 THEN "invalid_fps"
    ELSE IF f.frame_count <= 0 THEN "no_frames"
    ELSE IF f.width <= 0 \/ f.height <= 0 THEN "invalid_resolution"
    ELSE IF f.frame_count > MAX_VIDEO_DURATION * f.fps THEN "too_long"
    ELSE "ok"

\* The message of the VideoProcessingError raised, or "ok".
validate_video_file(f) ==
    IF ~f.exists THEN "not_found"
    ELSE IF f.size > MAX_FILE_SIZE_MB * BytesPerMB THEN "too_large"
    ELSE IF f.size = 0 THEN "empty"
    ELSE IF ~f.opens THEN "cannot_open"
    ELSE IF f.fps <= 0 \/ f.fps > MAX_FPS THEN "invalid_fps"
    ELSE IF f.frame_count <= 0 THEN "no_frames"
    ELSE IF f.width <= 0 \/ f.height <= 0 THEN "invalid_resolution"
    ELSE IF f.frame_count > MAX_VIDEO_DURATION * f.fps THEN "too_long"
    ELSE "ok"

(* --------------------- the frame loop of process_video ---------------- *)

\* Calls of one loop iteration that can raise.
FrameCalls ==
    {"resize", "cvtColor", "process", "cvtBack", "draw", "putText",
     "write", "write_in_handler"}

\* The two calls of out.write(frame) an iteration can reach: lines 299 or
\* 354, and line 366 in the handler.
WriteCalls == {"write", "write_in_handler"}

\* The calls that raise on one frame. Of the calls before the write only the
\* first that raises is reached, so one of them is enough.
FrameFailures ==
    { S \in SUBSET FrameCalls : Cardinality(S \ WriteCalls) <= 1 }

\* What cap.read() delivered with success = True, and how the calls of the
\* iteration behave on it.
FrameInputs ==
    [kind : {"null", "ok", "mismatch"}, landmarks : BOOLEAN,
     raises : FrameFailures]

\* The landmark visibilities, in thousandths, of the skeleton the estimator
\* reports on frame src of the stream when it reports one (it reports 33
\* landmarks; two stand for them). What it reports depends on the frame
\* alone.
Skeleton(src) == IF src % 2 = 0 THEN <<1000, 1000>> ELSE <<0, 1000>>

\* Line 332: frame_count / fps, in milliseconds.
Timestamp(n) == (n * 1000) \div input.fps

Locals ==
    [frame_count |-> frame_count, detected_frames |-> detected_frames,
     failed_frames |-> failed_frames, keypoints_data |-> keypoints_data,
     written |-> written, dropped |-> dropped]

\* WriteFrame putting the frame in front of those written before.
WriteFrame_in_front(c, src, fits, overlay) ==
    [c EXCEPT !.written =
        <<[src |-> src, fits |-> fits, overlay |-> overlay]>> \o @]

\* out.write(frame): src is the index of the frame in the input stream.
WriteFrame(c, src, fits, overlay) ==
    [c EXCEPT !.written =
        Append(@, [src |-> src, fits |-> fits, overlay |-> overlay])]

\* FrameHandler without the "frame_count += 1" of line 369.
FrameHandler_no_count(c, f, src, fits, overlay) ==
    LET c1 == [c EXCEPT !.failed_frames = @ + 1]
    IN  IF "write_in_handler" \in f.raises
        THEN [c1 EXCEPT !.dropped = @ + 1]
        ELSE WriteFrame(c1, src, fits, overlay)

\* "except Exception as e" of the loop body (lines 361-370).
FrameHandler(c, f, src, fits, overlay) ==
    LET c1 == [c EXCEPT !.failed_frames = @ + 1]
        c2 == IF "write_in_handler" \in f.raises
              THEN [c1 EXCEPT !.dropped = @ + 1]
              ELSE WriteFrame(c1, src, fits, overlay)
    IN  [c2 EXCEPT !.frame_count = @ + 1]

\* Lines 303-355: the estimator returned.
AnnotateAndWrite(c, f, src) ==
    IF "cvtBack" \in f.raises THEN FrameHandler(c, f, src, TRUE, FALSE)
    ELSE
      LET drawn == f.landmarks /\ "draw" \notin f.raises
          c1 == IF f.landmarks
                THEN [c EXCEPT !.detected_frames = @ + 1] ELSE c
          c2 == IF drawn
                THEN [c1 EXCEPT !.keypoints_data =
                        Append(@, [frame |-> c.frame_count, src |-> src,
                                   landmarks |-> Skeleton(src),
                                   timestamp |-> Timestamp(c.frame_count)])]
                ELSE c1
      IN  IF "putText" \in f.raises \/ "write" \in f.raises
          THEN FrameHandler(c2, f, src, TRUE, drawn)
          ELSE [WriteFrame(c2, src, TRUE, drawn)
                   EXCEPT !.frame_count = @ + 1]

\* process_frame handing a frame that failed to decode to the handler, which
\* writes it.
process_frame_writes_null(c, f, src) ==
    IF f.kind = "null" THEN FrameHandler(c, f, src, FALSE, FALSE)
    ELSE IF f.kind = "mismatch" /\ "resize" \in f.raises
         THEN FrameHandler(c, f, src, FALSE, FALSE)
    ELSE IF "cvtColor" \in f.raises
         THEN FrameHandler(c, f, src, TRUE, FALSE)
    ELSE IF "process" \in f.raises
         THEN LET c1 == [c EXCEPT !.failed_frames = @ + 1]
              IN  IF "write" \in f.raises
                  THEN FrameHandler(c1, f, src, TRUE, FALSE)
                  ELSE [WriteFrame(c1, src, TRUE, FALSE)
                           EXCEPT !.frame_count = @ + 1]
    ELSE AnnotateAndWrite(c, f, src)

\* process_frame counting a frame that failed to decode as processed.
process_frame_counts_null(c, f, src) ==
    IF f.kind = "null"
    THEN [c EXCEPT !.failed_frames = @ + 1, !.frame_count = @ + 1]
    ELSE IF f.kind = "mismatch" /\ "resize" \in f.raises
         THEN FrameHandler(c, f, src, FALSE, FALSE)
    ELSE IF "cvtColor" \in f.raises
         THEN FrameHandler(c, f, src, TRUE, FALSE)
    ELSE IF "process" \in f.raises
         THEN LET c1 == [c EXCEPT !.failed_frames = @ + 1]
              IN  IF "write" \in f.raises
                  THEN FrameHandler(c1, f, src, TRUE, FALSE)
                  ELSE [WriteFrame(c1, src, TRUE, FALSE)
                           EXCEPT !.frame_count = @ + 1]
    ELSE AnnotateAndWrite(c, f, src)

\* Lines 277-370: one iteration after cap.read() returned success.
process_frame(c, f, src) ==
    IF f.kind = "null" THEN [c EXCEPT !.failed_frames = @ + 1]
    ELSE IF f.kind = "mismatch" /\ "resize" \in f.raises
         THEN FrameHandler(c, f, src, FALSE, FALSE)
    ELSE IF "cvtColor" \in f.raises
         THEN FrameHandler(c, f, src, TRUE, FALSE)
    ELSE IF "process" \in f.raises
         THEN LET c1 == [c EXCEPT !.failed_frames = @ + 1]
              IN  IF "write" \in f.raises
                  THEN FrameHandler(c1, f, src, TRUE, FALSE)
                  ELSE [WriteFrame(c1, src, TRUE, FALSE)
                           EXCEPT !.frame_count = @ + 1]
    ELSE AnnotateAndWrite(c, f, src)

(* --------------------------- process_video ---------------------------- *)

\* Finally when the finally block is missing.
Finally_absent(h) == h

\* cap.release() / out.release() of the finally block (lines 420-428): a
\* handle that was never bound is skipped.
Finally(h) == IF h = "none" THEN "none" ELSE "released"

\* process_video raises VideoProcessingError(msg); origin is the call that
\* failed. c and o are the handles as the raising statement leaves them.
Raise(msg, origin, c, o) ==
    /\ pc' = "raised"
    /\ error' = [msg |-> msg, origin |-> origin, attempt |-> attempt]
    /\ cap' = Finally(c)
    /\ out' = Finally(o)

\* wrap_exception when lines 416-418 are missing.
wrap_exception_absent(exc) == exc

\* Lines 416-418: an exception that is no VideoProcessingError is raised
\* again as VideoProcessingError("Processing failed: ...").
wrap_exception(exc) == "processing_failed"

\* Line 223.
Validate ==
    /\ rpc = "running" /\ pc = "validate"
    /\ IF validate_video_file(input) = "ok"
       THEN /\ pc' = "open_cap"
            /\ UNCHANGED <<cap, out, error>>
       ELSE Raise(validate_video_file(input), "validate", cap, out)
    /\ UNCHANGED <<input, aux, retryVars, pose, pose_closes, total_frames,
                   frame_count, detected_frames, failed_frames,
                   keypoints_data, reads, decode_failures, written, dropped,
                   out_file, result>>

\* Lines 226-235, the source opens.
OpenCapture ==
    /\ rpc = "running" /\ pc = "open_cap"
    /\ cap' = "open"
    /\ total_frames' = input.frame_count
    /\ pc' = "open_writer"
    /\ UNCHANGED <<input, aux, retryVars, out, pose, pose_closes, frame_count,
                   detected_frames, failed_frames, keypoints_data, reads,
                   decode_failures, written, dropped, out_file, result, error>>

\* Lines 226-229, cap.isOpened() is false.
OpenCaptureFails ==
    /\ rpc = "running" /\ pc = "open_cap"
    /\ Raise("open_after_validation", "open_cap", "unopened", out)
    /\ UNCHANGED <<input, aux, retryVars, pose, pose_closes, total_frames,
                   frame_count, detected_frames, failed_frames,
                   keypoints_data, reads, decode_failures, written, dropped,
                   out_file, result>>

\* OpenWriter without the initialisation of the counters (lines 260-263).
OpenWriter_keeps_counters ==
    /\ rpc = "running" /\ pc = "open_writer"
    /\ out' = "open"
    /\ out_file' = "empty"
    /\ pc' = "acquire"
    /\ UNCHANGED <<input, aux, retryVars, cap, pose, pose_closes, total_frames,
                   frame_count, detected_frames, failed_frames,
                   keypoints_data, reads, decode_failures, written, dropped,
                   result, error>>

\* Lines 237-265, the writer opens: the file at output_path is created.
OpenWriter ==
    /\ rpc = "running" /\ pc = "open_writer"
    /\ out' = "open"
    /\ out_file' = "empty"
    /\ frame_count' = 0
    /\ detected_frames' = 0
    /\ failed_frames' = 0
    /\ keypoints_data' = <<>>
    /\ pc' = "acquire"
    /\ UNCHANGED <<input, aux, retryVars, cap, pose, pose_closes, total_frames,
                   reads, decode_failures, written, dropped, result, error>>

\* Lines 251-257, out.isOpened() is false: cap.release(), then raise.
OpenWriterFails ==
    /\ rpc = "running" /\ pc = "open_writer"
    /\ Raise("writer_init", "open_writer", "released", "unopened")
    /\ UNCHANGED <<input, aux, retryVars, pose, pose_closes, total_frames,
                   frame_count, detected_frames, failed_frames,
                   keypoints_data, reads, decode_failures, written, dropped,
                   out_file, result>>

\* Line 248, mkdir raises (an unwritable output directory): lines 416-418
\* wrap the exception.
MkdirRaises ==
    /\ rpc = "running" /\ pc = "open_writer"
    /\ Raise(wrap_exception("PermissionError"), "mkdir", cap, out)
    /\ UNCHANGED <<input, aux, retryVars, pose, pose_closes, total_frames,
                   frame_count, detected_frames, failed_frames,
                   keypoints_data, reads, decode_failures, written, dropped,
                   out_file, result>>

\* Lines 63-80 and 268: the estimator is created and yielded.
AcquirePose ==
    /\ rpc = "running" /\ pc = "acquire"
    /\ pose' = "acquired"
    /\ pc' = "loop"
    /\ UNCHANGED <<input, aux, retryVars, cap, out, pose_closes, total_frames,
                   frame_count, detected_frames, failed_frames,
                   keypoints_data, reads, decode_failures, written, dropped,
                   out_file, result, error>>

\* Lines 66-92: mp_pose.Pose(...) raises; pose is still None in the finally.
AcquirePoseFails ==
    /\ rpc = "running" /\ pc = "acquire"
    /\ Raise("pose_init", "acquire", cap, out)
    /\ UNCHANGED <<input, aux, retryVars, pose, pose_closes, total_frames,
                   frame_count, detected_frames, failed_frames,
                   keypoints_data, reads, decode_failures, written, dropped,
                   out_file, result>>

\* ClosePose when _get_pose_detector has no finally.
ClosePose_absent == UNCHANGED <<pose, pose_closes>>

\* pose.close() in the finally of _get_pose_detector (lines 86-92).
ClosePose ==
    /\ pose' = IF pose = "acquired" THEN "closed" ELSE pose
    /\ pose_closes' = IF pose = "acquired" THEN pose_closes + 1
                      ELSE pose_closes

\* Lines 271-370: cap.read() delivered frame f and the loop body handles it.
DeliverFrame(f) ==
    /\ LET c == process_frame(Locals, f, reads)
       IN  /\ frame_count' = c.frame_count
           /\ detected_frames' = c.detected_frames
           /\ failed_frames' = c.failed_frames
           /\ keypoints_data' = c.keypoints_data
           /\ written' = c.written
           /\ dropped' = c.dropped
           /\ decode_failures' =
                IF f.kind = "null" THEN decode_failures + 1
                ELSE decode_failures
    /\ reads' = reads + 1
    /\ UNCHANGED <<input, aux, retryVars, pc, cap, out, pose, pose_closes,
                   total_frames, out_file, result, error>>

\* Lines 270-370: cap.read() delivers some frame.
ReadFrame ==
    /\ rpc = "running" /\ pc = "loop"
    /\ reads < MaxFrames
    /\ \E f \in FrameInputs : DeliverFrame(f)

\* Lines 270-275: cap.read() reports no frame; the with block ends.
EndOfVideo ==
    /\ rpc = "running" /\ pc = "loop"
    /\ ClosePose
    /\ pc' = "cleanup"
    /\ UNCHANGED <<input, aux, retryVars, cap, out, total_frames, frame_count,
                   detected_frames, failed_frames, keypoints_data, reads,
                   decode_failures, written, dropped, out_file, result, error>>

\* An exception outside the per-frame try (cap.read() raises): lines 82-84
\* re-raise it as VideoProcessingError, lines 86-92 close the estimator.
LoopRaises ==
    /\ rpc = "running" /\ pc = "loop"
    /\ ClosePose
    /\ Raise("pose_init", "loop", cap, out)
    /\ UNCHANGED <<input, aux, retryVars, total_frames, frame_count,
                   detected_frames, failed_frames, keypoints_data, reads,
                   decode_failures, written, dropped, out_file, result>>

\* Lines 372-374; the file the released writer leaves is the encoder's.
Cleanup ==
    /\ rpc = "running" /\ pc = "cleanup"
    /\ cap' = "released"
    /\ out' = "released"
    /\ out_file' \in {"absent", "empty", "nonempty"}
    /\ pc' = "verify"
    /\ UNCHANGED <<input, aux, retryVars, pose, pose_closes, total_frames,
                   frame_count, detected_frames, failed_frames,
                   keypoints_data, reads, decode_failures, written, dropped, result,
                   error>>

\* verify_output without the size check of lines 386-388.
verify_output_exists_only(file) ==
    IF file = "absent" THEN "output_not_created" ELSE "ok"

\* Lines 382-388: the message raised, or "ok".
verify_output(file) ==
    IF file = "absent" THEN "output_not_created"
    ELSE IF file = "empty" THEN "output_empty"
    ELSE "ok"

\* The integer nearest to a / b, for a >= 0 and b > 0.
Rounded(a, b) == (2 * a + b) \div (2 * b)

\* Lines 379-380 and 399-400: n / total * 100 as printed with two decimals,
\* in hundredths of a percent.
rate(n, total) == IF total > 0 THEN Rounded(n * 10000, total) ELSE 0

RECURSIVE SumSeq(_)
SumSeq(s) == IF s = <<>> THEN 0 ELSE Head(s) + SumSeq(Tail(s))

RECURSIVE Flatten(_)
\* The visibilities the two loops of lines 439-442 visit, in order.
Flatten(kd) ==
    IF kd = <<>> THEN <<>> ELSE Head(kd).landmarks \o Flatten(Tail(kd))

\* Lines 430-448, in thousandths (round(..., 3)); NoValue is None.
calculate_average_visibility(kd) ==
    IF kd = <<>> THEN NoValue
    ELSE IF Len(Flatten(kd)) > 0
         THEN [value |-> Rounded(SumSeq(Flatten(kd)), Len(Flatten(kd)))]
         ELSE NoValue

\* Lines 390-407, with processed_frames as given.
ResultWith(processed) ==
    [success |-> TRUE, total_frames |-> total_frames,
     processed_frames |-> processed, detected_frames |-> detected_frames,
     failed_frames |-> failed_frames,
     detection_rate |-> rate(detected_frames, total_frames),
     failed_rate |-> rate(failed_frames, total_frames),
     keypoints_count |-> Len(keypoints_data),
     average_visibility |-> calculate_average_visibility(keypoints_data),
     attempt |-> attempt]

\* JobResult reporting the metadata frame count as processed_frames.
JobResult_processed_is_total == ResultWith(total_frames)

\* Lines 390-407.
JobResult == ResultWith(frame_count)

\* Lines 382-410.
VerifyOutput ==
    /\ rpc = "running" /\ pc = "verify"
    /\ IF verify_output(out_file) = "ok"
       THEN /\ result' = JobResult
            /\ pc' = "returned"
            /\ UNCHANGED <<cap, out, error>>
       ELSE /\ Raise(verify_output(out_file), "verify", cap, out)
            /\ UNCHANGED result
    /\ UNCHANGED <<input, aux, retryVars, pose, pose_closes, total_frames,
                   frame_count, detected_frames, failed_frames,
                   keypoints_data, reads, decode_failures, written, dropped,
                   out_file>>

(* --------------------- process_video_with_retry ----------------------- *)

\* should_sleep sleeping after the last attempt too.
should_sleep_always(n, max) == n < max

\* Line 474.
should_sleep(n, max) == n < max - 1

\* wait_time without the exponential growth.
wait_time_fixed(n) == 1

\* Line 476.
wait_time(n) == 2 ^ n

\* record_error keeping the first failure.
record_error_first(prev, e) == IF prev = NoValue THEN e ELSE prev

\* Line 471.
record_error(prev, e) == e

\* StartAttempt as the body of a loop that tests its bound at the end: the
\* first attempt runs whatever max_retries is.
StartAttempt_at_least_once ==
    /\ rpc = "loop" /\ (attempt < max_retries \/ attempt = 0)
    /\ rpc' = "running"
    /\ events' = Append(events, [ev |-> "attempt", n |-> attempt])
    /\ pc' = "validate"
    /\ cap' = "none" /\ out' = "none" /\ pose' = "none"
    /\ pose_closes' = 0
    /\ total_frames' = 0 /\ frame_count' = 0
    /\ detected_frames' = 0 /\ failed_frames' = 0
    /\ keypoints_data' = <<>>
    /\ reads' = 0 /\ decode_failures' = 0
    /\ written' = <<>> /\ dropped' = 0
    /\ result' = NoValue /\ error' = NoValue
    /\ UNCHANGED <<input, aux, max_retries, attempt, last_error, outcome,
                   out_file>>

\* Lines 465-468: the next attempt calls process_video.
StartAttempt ==
    /\ rpc = "loop" /\ attempt < max_retries
    /\ rpc' = "running"
    /\ events' = Append(events, [ev |-> "attempt", n |-> attempt])
    /\ pc' = "validate"
    /\ cap' = "none" /\ out' = "none" /\ pose' = "none"
    /\ pose_closes' = 0
    /\ total_frames' = 0 /\ frame_count' = 0
    /\ detected_frames' = 0 /\ failed_frames' = 0
    /\ keypoints_data' = <<>>
    /\ reads' = 0 /\ decode_failures' = 0
    /\ written' = <<>> /\ dropped' = 0
    /\ result' = NoValue /\ error' = NoValue
    /\ UNCHANGED <<input, aux, max_retries, attempt, last_error, outcome,
                   out_file>>

\* Line 468: process_video returned.
AttemptReturns ==
    /\ rpc = "running" /\ pc = "returned"
    /\ rpc' = "done"
    /\ outcome' = [kind |-> "returned", value |-> result]
    /\ UNCHANGED <<input, aux, max_retries, attempt, last_error, events, runVars>>

\* Lines 470-478: process_video raised.
AttemptFails ==
    /\ rpc = "running" /\ pc = "raised"
    /\ last_error' = record_error(last_error, error)
    /\ events' = IF should_sleep(attempt, max_retries)
                 THEN Append(events, [ev |-> "sleep", n |-> wait_time(attempt)])
                 ELSE events
    /\ attempt' = attempt + 1
    /\ rpc' = "loop"
    /\ UNCHANGED <<input, aux, max_retries, outcome, runVars>>

\* Line 480: the loop is exhausted.
Exhausted ==
    /\ rpc = "loop" /\ attempt >= max_retries
    /\ rpc' = "aborted"
    /\ outcome' = [kind |-> "raised", msg |-> "all_attempts_failed",
                   cause |-> last_error]
    /\ UNCHANGED <<input, aux, max_retries, attempt, last_error, events, runVars>>

(* --------------------------- specification ---------------------------- *)

\* No call of process_video has started.
IdleRun ==
    /\ rpc = "loop"
    /\ attempt = 0
    /\ last_error = NoValue
    /\ events = <<>>
    /\ outcome = NoValue
    /\ pc = "idle"
    /\ cap = "none" /\ out = "none" /\ pose = "none"
    /\ pose_closes = 0
    /\ total_frames = 0 /\ frame_count = 0
    /\ detected_frames = 0 /\ failed_frames = 0
    /\ keypoints_data = <<>>
    /\ reads = 0 /\ decode_failures = 0
    /\ written = <<>> /\ dropped = 0
    /\ out_file = "absent"
    /\ result = NoValue /\ error = NoValue

\* _validate_video_file is not running on its own.
IdleValidate ==
    /\ vfile = NoValue /\ vpc = "idle" /\ vcap = "none" /\ vresult = NoValue

\* _get_output_codec is not running on its own.
IdleCodec ==
    /\ extension = "" /\ fourcc_env = NoValue
    /\ tried = 0 /\ codec_result = NoValue

\* process_video is not called repeatedly.
IdleRepeat ==
    /\ script = <<>> /\ run = 0 /\ prev_result = NoValue

\* The output path of process_video is not followed on its own.
IdleOutput ==
    /\ opc = "idle" /\ output_path = "" /\ writer_path = ""
    /\ disk = NoValue /\ reported = NoValue

\* No request reached the API.
IdleApi ==
    /\ api_files = {} /\ api_log = <<>>

\* No concurrent jobs.
IdleJobs ==
    /\ jobs = NoValue /\ estimators = <<>> /\ jscript = NoValue
    /\ self_pose = NoValue

IdleMore == IdleOutput /\ IdleApi /\ IdleJobs

Init ==
    /\ input \in Inputs
    /\ max_retries \in MinRetries..MaxRetries
    /\ IdleRun
    /\ IdleValidate /\ IdleCodec /\ IdleRepeat /\ IdleMore

Next ==
    \/ StartAttempt
    \/ Validate
    \/ OpenCapture
    \/ OpenCaptureFails
    \/ OpenWriter
    \/ OpenWriterFails
    \/ MkdirRaises
    \/ AcquirePose
    \/ AcquirePoseFails
    \/ ReadFrame
    \/ EndOfVideo
    \/ LoopRaises
    \/ Cleanup
    \/ VerifyOutput
    \/ AttemptReturns
    \/ AttemptFails
    \/ Exhausted

Spec == Init /\ [][Next]_vars

(* ------------------ _validate_video_file, step by step ---------------- *)

\* The files _validate_video_file is called on: every combination of the
\* values on both sides of each of its checks.
ValidateFiles ==
    { VideoFile(e, sz, o, fps, n, w, h) :
        e \in BOOLEAN,
        sz \in {0, 1, MAX_FILE_SIZE_MB * BytesPerMB,
                MAX_FILE_SIZE_MB * BytesPerMB + 1},
        o \in BOOLEAN,
        fps \in {0, 1, MAX_FPS, MAX_FPS + 1},
        n \in {-1, 0, 1, MAX_VIDEO_DURATION, MAX_VIDEO_DURATION + 1,
               MAX_VIDEO_DURATION * MAX_FPS, MAX_VIDEO_DURATION * MAX_FPS + 1},
        w \in {0, 640},
        h \in {0, 480} }

\* Lines 158-165: duration in milliseconds, file size in bytes.
Metadata(f) ==
    [fps |-> f.fps, frame_count |-> f.frame_count, width |-> f.width,
     height |-> f.height,
     duration |-> IF f.fps > 0 THEN (f.frame_count * 1000) \div f.fps ELSE 0,
     file_size |-> f.size]

\* cap_release when the call of cap.release() is missing.
cap_release_absent(h) == h

\* cap.release() (lines 128 and 139).
cap_release(h) == "released"

\* The check of _validate_video_file that rejects f, or "ok": the operator
\* validate_video_file follows the order of the checks in the code.
Verdict(f) == validate_video_file(f)

\* _validate_video_file raises VideoProcessingError(msg).
V_Raise(msg) ==
    /\ vpc' = "raised"
    /\ vresult' = [kind |-> "raised", msg |-> msg]

\* Lines 107-122: the checks on the path.
V_CheckFile ==
    /\ vpc = "start"
    /\ IF Verdict(vfile) \in {"not_found", "too_large", "empty"}
       THEN V_Raise(Verdict(vfile))
       ELSE vpc' = "open" /\ UNCHANGED vresult
    /\ UNCHANGED <<input, retryVars, runVars, vfile, vcap, codecVars,
                   repeatVars, moreVars>>

\* Lines 125-127: cv2.VideoCapture(video_path) opened the file.
V_Open ==
    /\ vpc = "open" /\ vfile.opens
    /\ vcap' = "open"
    /\ vpc' = "props"
    /\ UNCHANGED <<input, retryVars, runVars, vfile, vresult, codecVars,
                   repeatVars, moreVars>>

\* Lines 125-131: cap.isOpened() is false.
V_CannotOpen ==
    /\ vpc = "open" /\ ~vfile.opens
    /\ vcap' = cap_release("unopened")
    /\ V_Raise(Verdict(vfile))
    /\ UNCHANGED <<input, retryVars, runVars, vfile, codecVars, repeatVars, moreVars>>

\* Lines 134-139: the four properties are read and the source is released.
V_ReadProperties ==
    /\ vpc = "props"
    /\ vcap' = cap_release(vcap)
    /\ vpc' = "check"
    /\ UNCHANGED <<input, retryVars, runVars, vfile, vresult, codecVars,
                   repeatVars, moreVars>>

\* Lines 141-168: the checks on the properties, then the metadata.
V_CheckProperties ==
    /\ vpc = "check"
    /\ IF Verdict(vfile) = "ok"
       THEN /\ vpc' = "returned"
            /\ vresult' = [kind |-> "returned", metadata |-> Metadata(vfile)]
       ELSE V_Raise(Verdict(vfile))
    /\ UNCHANGED <<input, retryVars, runVars, vfile, vcap, codecVars,
                   repeatVars, moreVars>>

InitValidate ==
    /\ input = ValidFile(1)
    /\ max_retries = 0
    /\ IdleRun
    /\ vfile \in ValidateFiles
    /\ vpc = "start" /\ vcap = "none" /\ vresult = NoValue
    /\ IdleCodec /\ IdleRepeat /\ IdleMore

NextValidate ==
    \/ V_CheckFile
    \/ V_Open
    \/ V_CannotOpen
    \/ V_ReadProperties
    \/ V_CheckProperties

SpecValidate == InitValidate /\ [][NextValidate]_vars

(* ------------------------- _get_output_codec -------------------------- *)

\* Lines 183-188.
codec_preferences ==
    << [codec |-> "mp4v", ext |-> ".mp4"],
       [codec |-> "avc1", ext |-> ".mp4"],
       [codec |-> "XVID", ext |-> ".avi"],
       [codec |-> "MJPG", ext |-> ".avi"] >>

Codecs == { codec_preferences[i].codec : i \in 1..Len(codec_preferences) }

\* Suffixes of output_path: two of the list, one outside it, none.
Extensions == {".mp4", ".avi", ".mov", ""}

\* cv2.VideoWriter_fourcc(*codec) on this host: it returns a code, returns
\* None, or raises.
FourccOutcomes == {"code", "none", "raises"}

\* Line 195.
final_ext(requested, ext) == IF requested = ext THEN requested ELSE ext

\* Lines 190-197: the next candidate gives a code and is returned.
C_TryReturns ==
    /\ fourcc_env # NoValue /\ codec_result = NoValue
    /\ tried < Len(codec_preferences)
    /\ LET p == codec_preferences[tried + 1]
       IN  /\ fourcc_env[p.codec] = "code"
           /\ codec_result' = [kind |-> "returned", fourcc |-> p.codec,
                               ext |-> final_ext(extension, p.ext)]
    /\ UNCHANGED <<input, retryVars, runVars, valVars, extension, fourcc_env,
                   tried, repeatVars, moreVars>>

\* Lines 190-199: the next candidate gives None or raises; the loop goes on.
C_TrySkips ==
    /\ fourcc_env # NoValue /\ codec_result = NoValue
    /\ tried < Len(codec_preferences)
    /\ fourcc_env[codec_preferences[tried + 1].codec] # "code"
    /\ tried' = tried + 1
    /\ UNCHANGED <<input, retryVars, runVars, valVars, extension, fourcc_env,
                   codec_result, repeatVars, moreVars>>

\* Lines 201-203: no candidate was returned; cv2.VideoWriter_fourcc(*'mp4v')
\* is called once more, outside any try.
C_Fallback ==
    /\ fourcc_env # NoValue /\ codec_result = NoValue
    /\ tried = Len(codec_preferences)
    /\ codec_result' =
         IF fourcc_env["mp4v"] = "raises"
         THEN [kind |-> "raised", msg |-> "fourcc_error"]
         ELSE [kind |-> "returned",
               fourcc |-> IF fourcc_env["mp4v"] = "none" THEN "None"
                          ELSE "mp4v",
               ext |-> ".mp4"]
    /\ UNCHANGED <<input, retryVars, runVars, valVars, extension, fourcc_env,
                   tried, repeatVars, moreVars>>

InitCodec ==
    /\ input = ValidFile(1)
    /\ max_retries = 0
    /\ IdleRun /\ IdleValidate /\ IdleRepeat /\ IdleMore
    /\ extension \in Extensions
    /\ fourcc_env \in [Codecs -> FourccOutcomes]
    /\ tried = 0
    /\ codec_result = NoValue

NextCodec ==
    \/ C_TryReturns
    \/ C_TrySkips
    \/ C_Fallback

SpecCodec == InitCodec /\ [][NextCodec]_vars

(* ------------------- process_video, called repeatedly ----------------- *)

\* What the source delivers for a frame of the repeated video and how the
\* calls of the iteration behave on it: the frame decodes or not, the
\* estimator finds a pose or not, estimation or drawing raises or not.
ReplayFrames ==
    { f \in FrameInputs :
        /\ f.kind # "mismatch"
        /\ f.raises \in {{}, {"process"}, {"draw"}}
        /\ f.kind = "null" => (~f.landmarks /\ f.raises = {}) }

Scripts == UNION { [1..n -> ReplayFrames] : n \in 0..MaxScript }

\* The first call of process_video(video_path, output_path).
CallFirst ==
    /\ run = 0 /\ pc = "idle"
    /\ run' = 1
    /\ pc' = "validate"
    /\ UNCHANGED <<input, retryVars, cap, out, pose, pose_closes,
                   total_frames, frame_count, detected_frames, failed_frames,
                   keypoints_data, reads, decode_failures, written, dropped,
                   out_file, result, error, valVars, codecVars, moreVars, script,
                   prev_result>>

\* The next call on the same video: its handles are unbound, the source
\* starts at its first frame again; what the call before left in the
\* counters, in keypoints_data and at output_path is still there.
CallAgain ==
    /\ run \in 1..(MaxRuns - 1) /\ pc \in {"returned", "raised"}
    /\ run' = run + 1
    /\ prev_result' = result
    /\ pc' = "validate"
    /\ cap' = "none" /\ out' = "none" /\ pose' = "none"
    /\ pose_closes' = 0
    /\ reads' = 0 /\ decode_failures' = 0
    /\ written' = <<>> /\ dropped' = 0
    /\ result' = NoValue /\ error' = NoValue
    /\ UNCHANGED <<input, retryVars, total_frames, frame_count,
                   detected_frames, failed_frames, keypoints_data, out_file,
                   valVars, codecVars, moreVars, script>>

\* Lines 270-370 on the repeated video: cap.read() delivers its next frame.
ReplayFrame ==
    /\ run > 0 /\ rpc = "running" /\ pc = "loop"
    /\ reads < Len(script)
    /\ DeliverFrame(script[reads + 1])

\* Lines 270-275 on the repeated video: no frame is left.
ReplayEnds ==
    /\ run > 0 /\ reads = Len(script)
    /\ EndOfVideo

InitRepeat ==
    /\ input \in { ValidFile(n) : n \in 1..MaxFrames }
    /\ max_retries = 0
    /\ rpc = "running"
    /\ attempt = 0
    /\ last_error = NoValue
    /\ events = <<>>
    /\ outcome = NoValue
    /\ pc = "idle"
    /\ cap = "none" /\ out = "none" /\ pose = "none"
    /\ pose_closes = 0
    /\ total_frames = 0 /\ frame_count = 0
    /\ detected_frames = 0 /\ failed_frames = 0
    /\ keypoints_data = <<>>
    /\ reads = 0 /\ decode_failures = 0
    /\ written = <<>> /\ dropped = 0
    /\ out_file = "absent"
    /\ result = NoValue /\ error = NoValue
    /\ IdleValidate /\ IdleCodec /\ IdleMore
    /\ script \in Scripts
    /\ run = 0
    /\ prev_result = NoValue

NextRepeat ==
    \/ CallFirst
    \/ CallAgain
    \/ Validate
    \/ OpenCapture
    \/ OpenCaptureFails
    \/ OpenWriter
    \/ OpenWriterFails
    \/ MkdirRaises
    \/ AcquirePose
    \/ AcquirePoseFails
    \/ ReplayFrame
    \/ ReplayEnds
    \/ LoopRaises
    \/ Cleanup
    \/ VerifyOutput

SpecRepeat == InitRepeat /\ [][NextRepeat]_vars

(* ------------------ process_video on a given stream ------------------ *)

\* The streams of n frames of one call: on at most one frame, the k-th, any
\* of the calls of the iteration may raise and the frame may have any
\* shape; the other frames are as in ReplayFrames.
StreamsOf(n) ==
    UNION { { [i \in 1..n |-> IF i = k THEN f ELSE p[i]] :
                p \in [(1..n) \ {k} -> ReplayFrames], f \in FrameInputs } :
            k \in 1..n }

InitStream ==
    /\ input = ValidFile(MaxFrames)
    /\ max_retries = 0
    /\ rpc = "running"
    /\ attempt = 0
    /\ last_error = NoValue
    /\ events = <<>>
    /\ outcome = NoValue
    /\ pc = "idle"
    /\ cap = "none" /\ out = "none" /\ pose = "none"
    /\ pose_closes = 0
    /\ total_frames = 0 /\ frame_count = 0
    /\ detected_frames = 0 /\ failed_frames = 0
    /\ keypoints_data = <<>>
    /\ reads = 0 /\ decode_failures = 0
    /\ written = <<>> /\ dropped = 0
    /\ out_file = "absent"
    /\ result = NoValue /\ error = NoValue
    /\ IdleValidate /\ IdleCodec /\ IdleMore
    /\ script \in UNION { StreamsOf(n) : n \in 1..MaxScript }
    /\ run = 0
    /\ prev_result = NoValue

NextStream ==
    \/ CallFirst
    \/ Validate
    \/ OpenCapture
    \/ OpenCaptureFails
    \/ OpenWriter
    \/ OpenWriterFails
    \/ MkdirRaises
    \/ AcquirePose
    \/ AcquirePoseFails
    \/ ReplayFrame
    \/ ReplayEnds
    \/ LoopRaises
    \/ Cleanup
    \/ VerifyOutput

SpecStream == InitStream /\ [][NextStream]_vars

(* ----------------- the output path of process_video ------------------- *)

\* What is at a path: no file, an empty file, a file with content.
FileStates == {"absent", "empty", "nonempty"}

\* Lines 240-243: the suffix of output_path after the adjustment.
adjusted_path(requested, codec_ext) ==
    IF requested # codec_ext THEN codec_ext ELSE requested

\* result_output_file reporting the path the caller passed.
result_output_file_requested(requested, adjusted) == requested

\* Line 392: 'output_file': output_path, the local as reassigned at line 242.
result_output_file(requested, adjusted) == adjusted

\* process_video raises: the path is not reported.
O_Raise ==
    /\ opc' = "raised"
    /\ UNCHANGED reported

\* Lines 237-243: _get_output_codec returned and the path is adjusted.
O_Adjust ==
    /\ opc = "codec" /\ codec_result # NoValue
    /\ codec_result.kind = "returned"
    /\ output_path' = adjusted_path(extension, codec_result.ext)
    /\ opc' = "writer"
    /\ UNCHANGED <<input, retryVars, runVars, valVars, codecVars, repeatVars,
                   writer_path, disk, reported, apiVars, jobVars>>

\* Line 237: _get_output_codec raised.
O_CodecRaised ==
    /\ opc = "codec" /\ codec_result # NoValue
    /\ codec_result.kind = "raised"
    /\ O_Raise
    /\ UNCHANGED <<input, retryVars, runVars, valVars, codecVars, repeatVars,
                   output_path, writer_path, disk, apiVars, jobVars>>

\* Lines 246-257: cv2.VideoWriter opens on output_path and creates the file.
O_OpenWriter ==
    /\ opc = "writer"
    /\ writer_path' = output_path
    /\ disk' = [disk EXCEPT ![output_path] = "empty"]
    /\ opc' = "loop"
    /\ UNCHANGED <<input, retryVars, runVars, valVars, codecVars, repeatVars,
                   output_path, reported, apiVars, jobVars>>

\* Lines 251-257: out.isOpened() is false; the file is as it was.
O_OpenWriterFails ==
    /\ opc = "writer"
    /\ O_Raise
    /\ UNCHANGED <<input, retryVars, runVars, valVars, codecVars, repeatVars,
                   output_path, writer_path, disk, apiVars, jobVars>>

\* Lines 268-374: the frames are written and the writer is released; what
\* it leaves at its path is the encoder's.
O_Release ==
    /\ opc = "loop"
    /\ \E st \in FileStates : disk' = [disk EXCEPT ![writer_path] = st]
    /\ opc' = "verify"
    /\ UNCHANGED <<input, retryVars, runVars, valVars, codecVars, repeatVars,
                   output_path, writer_path, reported, apiVars, jobVars>>

\* Lines 382-410: the file at output_path is verified and reported.
O_Verify ==
    /\ opc = "verify"
    /\ IF verify_output(disk[output_path]) = "ok"
       THEN /\ reported' = result_output_file(extension, output_path)
            /\ opc' = "returned"
       ELSE O_Raise
    /\ UNCHANGED <<input, retryVars, runVars, valVars, codecVars, repeatVars,
                   output_path, writer_path, disk, apiVars, jobVars>>

InitOutput ==
    /\ input = ValidFile(1)
    /\ max_retries = 0
    /\ IdleRun /\ IdleValidate /\ IdleRepeat /\ IdleApi /\ IdleJobs
    /\ extension \in Extensions
    /\ fourcc_env \in [Codecs -> FourccOutcomes]
    /\ tried = 0
    /\ codec_result = NoValue
    /\ opc = "codec"
    /\ output_path = extension
    /\ writer_path = ""
    /\ disk \in [Extensions -> {"absent", "nonempty"}]
    /\ reported = NoValue

NextOutput ==
    \/ C_TryReturns
    \/ C_TrySkips
    \/ C_Fallback
    \/ O_Adjust
    \/ O_CodecRaised
    \/ O_OpenWriter
    \/ O_OpenWriterFails
    \/ O_Release
    \/ O_Verify

SpecOutput == InitOutput /\ [][NextOutput]_vars

(* ------------------------- the API (app/main.py) ---------------------- *)

\* The file of the job in outputs/ with suffix ext.
OutputFile(ext) == [dir |-> "outputs", suffix |-> ext]

\* The upload of the job in uploads/.
InputFile == [dir |-> "uploads", suffix |-> "input"]

\* main.py line 111: output_path = OUTPUT_DIR / f"{job_id}_output.mp4".
RequestedOutput == ".mp4"

Answer(op, status) == [op |-> op, status |-> status]

\* An answer is still to be sent to the client.
A_CanAnswer == Len(api_log) < MaxRequests

\* main.py lines 132-152: process_video_with_retry returned; its output is
\* at the path the codec adjustment made (video_processor.py lines 240-243).
A_AnalyzeReturns ==
    /\ api_log = <<>> /\ codec_result # NoValue
    /\ codec_result.kind = "returned"
    /\ api_files' = api_files \cup
         {OutputFile(adjusted_path(RequestedOutput, codec_result.ext))}
    /\ api_log' = Append(api_log, Answer("analyze", 200))
    /\ UNCHANGED <<input, retryVars, runVars, valVars, codecVars, repeatVars,
                   outVars, jobVars>>

\* What the failed attempts left in outputs/: nothing when they raised
\* before cv2.VideoWriter was called (video_processor.py line 251), else
\* the file the writer created at the adjusted path (lines 240-243).
LeftByAttempts(opened) ==
    IF opened
    THEN {OutputFile(adjusted_path(RequestedOutput, codec_result.ext))}
    ELSE {}

\* main.py lines 157-160: the paths the handler unlinks, the locals
\* input_path and output_path of lines 110-111.
removed_on_error == {InputFile, OutputFile(RequestedOutput)}

\* main.py lines 154-169: process_video_with_retry raised
\* VideoProcessingError after every attempt failed, before the writer was
\* opened or after it; the handler removes its two paths and answers 422.
A_AnalyzeFails ==
    /\ api_log = <<>> /\ codec_result # NoValue
    /\ \E opened \in BOOLEAN :
         /\ opened => codec_result.kind = "returned"
         /\ api_files' =
              (api_files \cup LeftByAttempts(opened)) \ removed_on_error
    /\ api_log' = Append(api_log, Answer("analyze", 422))
    /\ UNCHANGED <<input, retryVars, runVars, valVars, codecVars, repeatVars,
                   outVars, jobVars>>

\* main.py lines 193-211.
A_Download ==
    /\ api_log # <<>> /\ A_CanAnswer
    /\ api_log' = Append(api_log,
         Answer("download",
                IF OutputFile(".mp4") \in api_files THEN 200 ELSE 404))
    /\ UNCHANGED <<input, retryVars, runVars, valVars, codecVars, repeatVars,
                   outVars, api_files, jobVars>>

\* main.py lines 213-241.
A_Cleanup ==
    /\ api_log # <<>> /\ A_CanAnswer
    /\ api_files' = api_files \ {InputFile, OutputFile(".mp4")}
    /\ api_log' = Append(api_log, Answer("cleanup", 200))
    /\ UNCHANGED <<input, retryVars, runVars, valVars, codecVars, repeatVars,
                   outVars, jobVars>>

\* The upload is saved (main.py lines 116-127) and processing starts.
InitApi ==
    /\ input = ValidFile(1)
    /\ max_retries = 0
    /\ IdleRun /\ IdleValidate /\ IdleRepeat /\ IdleOutput /\ IdleJobs
    /\ extension = RequestedOutput
    /\ fourcc_env \in [Codecs -> FourccOutcomes]
    /\ tried = 0
    /\ codec_result = NoValue
    /\ api_files = {InputFile}
    /\ api_log = <<>>

NextApi ==
    \/ C_TryReturns
    \/ C_TrySkips
    \/ C_Fallback
    \/ A_AnalyzeReturns
    \/ A_AnalyzeFails
    \/ A_Download
    \/ A_Cleanup

SpecApi == InitApi /\ [][NextApi]_vars

(* --------------------------- concurrent jobs -------------------------- *)

\* The jobs that run at the same time, each in its own worker thread.
Jobs == {"a", "b"}

\* The DanceMovementAnalyzer instances the jobs call process_video on.
Analyzers == {"A1", "A2"}

\* No estimator: the value None.
None == 0

\* What a job's source delivers for a frame: it decodes or not, the
\* estimator finds a pose or not; no call raises.
JobFrames == { f \in ReplayFrames : f.raises = {} }

JobScripts == UNION { [1..n -> JobFrames] : n \in 0..MaxScript }

\* Lines 260-263: the counters of a call, initialised.
FreshLocals ==
    [frame_count |-> 0, detected_frames |-> 0, failed_frames |-> 0,
     keypoints_data |-> <<>>, written |-> <<>>, dropped |-> 0]

\* What process_video computes on a stream when nothing else runs.
RECURSIVE RunAlone(_, _)
RunAlone(s, n) ==
    IF n = 0 THEN FreshLocals
    ELSE process_frame(RunAlone(s, n - 1), s[n], n - 1)

\* estimator_used taking the estimator from the attribute self.pose of the
\* analyzer instead of the local of the with statement.
estimator_used_attribute(j) == self_pose[jobs[j].analyzer]

\* Lines 268 and 294: pose.process is called on the local pose that the
\* with statement bound.
estimator_used(j) == jobs[j].pose

\* Lines 223-265 in job j: the source and the writer are open, the counters
\* are initialised.
J_Open(j) ==
    /\ jobs[j].pc = "start"
    /\ jobs' = [jobs EXCEPT ![j].pc = "acquire", ![j].c = FreshLocals]
    /\ UNCHANGED <<input, retryVars, runVars, valVars, codecVars, repeatVars,
                   outVars, apiVars, estimators, jscript, self_pose>>

\* Lines 63-80 and 268 in job j: a new Pose instance is created and bound
\* to the local pose of the generator and of the with statement.
J_Acquire(j) ==
    /\ jobs[j].pc = "acquire"
    /\ estimators' = Append(estimators, [owner |-> j, closed |-> FALSE])
    /\ jobs' = [jobs EXCEPT ![j].pc = "loop",
                            ![j].pose = Len(estimators) + 1]
    /\ UNCHANGED <<input, retryVars, runVars, valVars, codecVars, repeatVars,
                   outVars, apiVars, jscript, self_pose>>

\* Lines 270-370 in job j: the next frame; a frame that decodes is given to
\* the estimator.
J_Frame(j) ==
    /\ jobs[j].pc = "loop"
    /\ jobs[j].reads < Len(jscript[j])
    /\ LET f == jscript[j][jobs[j].reads + 1]
       IN  jobs' = [jobs EXCEPT
             ![j].c = process_frame(@, f, jobs[j].reads),
             ![j].reads = @ + 1,
             ![j].invoked = IF f.kind = "null" THEN @
                            ELSE @ \cup {estimator_used(j)}]
    /\ UNCHANGED <<input, retryVars, runVars, valVars, codecVars, repeatVars,
                   outVars, apiVars, estimators, jscript, self_pose>>

\* Lines 270-275 and 86-92 in job j: the stream ends, the finally of the
\* generator closes its local pose; the job returns its result.
J_End(j) ==
    /\ jobs[j].pc = "loop"
    /\ jobs[j].reads = Len(jscript[j])
    /\ estimators' = [estimators EXCEPT ![jobs[j].pose].closed = TRUE]
    /\ jobs' = [jobs EXCEPT ![j].pc = "returned"]
    /\ UNCHANGED <<input, retryVars, runVars, valVars, codecVars, repeatVars,
                   outVars, apiVars, jscript, self_pose>>

\* The jobs are submitted to the executor; they share an analyzer or not.
\* __init__ set self.pose = None (line 46).
InitJobs ==
    /\ input = ValidFile(MaxFrames)
    /\ max_retries = 0
    /\ IdleRun /\ IdleValidate /\ IdleCodec /\ IdleRepeat
    /\ IdleOutput /\ IdleApi
    /\ jscript \in [Jobs -> JobScripts]
    /\ \E an \in [Jobs -> Analyzers] :
         /\ an["a"] = "A1"
         /\ jobs = [j \in Jobs |->
                      [pc |-> "start", analyzer |-> an[j], pose |-> None,
                       c |-> FreshLocals, reads |-> 0, invoked |-> {}]]
    /\ estimators = <<>>
    /\ self_pose = [a \in Analyzers |-> None]

NextJobs ==
    \/ \E j \in Jobs : J_Open(j)
    \/ \E j \in Jobs : J_Acquire(j)
    \/ \E j \in Jobs : J_Frame(j)
    \/ \E j \in Jobs : J_End(j)

SpecJobs == InitJobs /\ [][NextJobs]_vars

(* ------------------------------- claims ------------------------------- *)

IsSleep(e) == e.ev = "sleep"

\* The number of rounds of "for attempt in range(max_retries)".
Rounds == IF max_retries > 0 THEN max_retries ELSE 0

IsAttempt(e) == e.ev = "attempt"

\* The durations of the sleeps taken so far, in order.
Sleeps == SelectSeq(events, IsSleep)

\* The attempts started so far, in order.
Attempts == SelectSeq(events, IsAttempt)

\* C1, as stated: at loop exit the number of frames written equals the
\* number of frames read, whatever the per-frame outcomes (the writer
\* accepting every frame it is given).
C1_AsStated ==
    (pc = "cleanup" /\ dropped = 0) => Len(written) = reads

\* C1, amended: every frame read that decodes is counted as processed once
\* and written once, in input order, unless the writer refuses it; a frame
\* that fails to decode is neither written nor counted. So the number of
\* frames written is the number read minus the decode failures minus the
\* frames the writer refused.
C1_FrameCountParity ==
    /\ frame_count = reads - decode_failures
    /\ Len(written) = frame_count - dropped
    /\ \A i \in 1..Len(written) : written[i].src \in 0..(reads - 1)
    /\ \A i, j \in 1..Len(written) :
         i < j => written[i].src < written[j].src

C1_Witness ==
    /\ pc = "cleanup"
    /\ reads = 2 /\ decode_failures = 1 /\ dropped = 0
    /\ Len(written) = 1 /\ failed_frames = 2

\* C2, as stated: the result's processed_frames equals its total_frames
\* (the source delivering as many frames as its metadata announces).
C2_AsStated ==
    (pc = "returned" /\ reads = input.frame_count)
      => result.processed_frames = result.total_frames

\* C2, amended: the result's total_frames is the validated metadata frame
\* count and its processed_frames is the number of frames the source
\* delivered minus those that failed to decode; the two are equal when the
\* source delivers exactly the metadata frame count and every frame
\* decodes, also when every frame fails estimation.
C2_ProcessedFrames ==
    pc = "returned" =>
      /\ result.total_frames = input.frame_count
      /\ result.processed_frames = reads - decode_failures
      /\ (reads = input.frame_count /\ decode_failures = 0)
           => result.processed_frames = result.total_frames

C2_Witness ==
    /\ pc = "returned"
    /\ result.total_frames = 2 /\ result.processed_frames = 2
    /\ result.failed_frames = 2 /\ result.detected_frames = 0
    /\ decode_failures = 0

\* C3: an input that fails validation gets one attempt and no backoff
\* sleep.
C3_InvalidInputNotRetried ==
    validate_video_file(input) # "ok" => Len(events) <= 1

\* C4: the log of process_video_with_retry is Attempt(0), Backoff(2^0),
\* Attempt(1), Backoff(2^1), ...: a backoff follows attempt n only when
\* n < max - 1 and is followed by attempt n + 1; the run is Done only on a
\* returned result and Aborted only after attempt max - 1 failed, with no
\* sleep after it.
C4_RetryStateMachine ==
    /\ \A i \in 1..Len(events) :
         IF i % 2 = 1
         THEN events[i] = [ev |-> "attempt", n |-> (i - 1) \div 2]
         ELSE /\ events[i] = [ev |-> "sleep", n |-> 2 ^ ((i - 2) \div 2)]
              /\ (i - 2) \div 2 < max_retries - 1
    /\ Len(Attempts) <= Rounds
    /\ max_retries >= 1 => Len(Sleeps) <= max_retries - 1
    /\ (events # <<>> /\ events[Len(events)].ev = "sleep")
         => rpc = "loop" /\ attempt < max_retries
    /\ rpc = "running" => Len(Attempts) = attempt + 1
    /\ rpc = "done" => pc = "returned"
    /\ rpc = "aborted" =>
         /\ attempt = Rounds
         /\ Len(Attempts) = Rounds
         /\ events # <<>> =>
              events[Len(events)] = [ev |-> "attempt", n |-> max_retries - 1]

C4_Witness ==
    /\ rpc = "aborted" /\ max_retries = 3
    /\ events = << [ev |-> "attempt", n |-> 0], [ev |-> "sleep", n |-> 1],
                   [ev |-> "attempt", n |-> 1], [ev |-> "sleep", n |-> 2],
                   [ev |-> "attempt", n |-> 2] >>

\* C5: when the first k attempts fail and attempt k + 1 returns, the caller
\* gets the result of attempt k + 1, no attempt follows it, and exactly k
\* sleeps were taken, each longer than the one before.
C5_SuccessAfterFailures ==
    rpc = "done" =>
      /\ outcome = [kind |-> "returned", value |-> result]
      /\ result.attempt = attempt
      /\ Len(Attempts) = attempt + 1
      /\ Attempts[Len(Attempts)].n = attempt
      /\ Len(Sleeps) = attempt
      /\ \A i, j \in 1..Len(Sleeps) : i < j => Sleeps[i].n < Sleeps[j].n
      /\ ~ENABLED StartAttempt

C5_Witness ==
    /\ rpc = "done" /\ max_retries = 3 /\ attempt = 2
    /\ last_error.msg = "pose_init" /\ last_error.origin = "acquire"
    /\ outcome.value.attempt = 2
    /\ Len(Sleeps) = 2

\* C6: nothing is surfaced to the caller while attempts remain; when every
\* attempt failed, the one error raised carries the exception of the last
\* attempt.
C6_LastCause ==
    /\ rpc \in {"loop", "running"} => outcome = NoValue
    /\ (rpc = "aborted" /\ max_retries >= 1) =>
         /\ outcome.kind = "raised"
         /\ outcome.msg = "all_attempts_failed"
         /\ outcome.cause = error
         /\ outcome.cause.attempt = max_retries - 1

C6_Witness ==
    /\ rpc = "aborted" /\ max_retries = 2
    /\ outcome.cause.attempt = 1
    /\ outcome.cause.msg = "output_empty"

\* C7: an estimator that was acquired is closed exactly once by the time
\* the run leaves the frame loop, however it leaves it, and is never closed
\* without having been acquired.
C7_EstimatorReleased ==
    /\ pose = "acquired" => pc = "loop" /\ pose_closes = 0
    /\ pose = "closed" => pose_closes = 1
    /\ pose = "none" => pose_closes = 0
    /\ pc \in {"cleanup", "verify", "returned"} => pose = "closed"
    /\ (pc = "raised" /\ error.origin \in {"loop", "verify"})
         => pose = "closed"

C7_Witness ==
    /\ pc = "raised" /\ error.origin = "loop"
    /\ pose = "closed" /\ pose_closes = 1
    /\ reads = 1

\* C8: no run of process_video ends with the source or the writer open,
\* and the output is verified only once both are released.
C8_HandlesReleased ==
    /\ pc \in {"returned", "raised"} => cap # "open" /\ out # "open"
    /\ pc \in {"verify", "returned"} =>
         cap = "released" /\ out = "released"
    /\ (pc = "raised" /\ error.origin \in {"acquire", "loop", "verify"})
         => cap = "released" /\ out = "released"
    /\ (pc = "raised" /\ error.origin \in {"open_writer", "mkdir"})
         => cap = "released"

C8_Witness ==
    /\ pc = "raised" /\ error.origin = "acquire"
    /\ cap = "released" /\ out = "released"

\* C9: a run returns a result only when the released writer left a
\* non-empty file; with the file absent or empty the run raises and
\* produces no result, whatever was written.
C9_OutputVerified ==
    /\ pc = "returned" => out_file = "nonempty" /\ result.success
    /\ rpc = "done" => out_file = "nonempty"
    /\ pc = "raised" => result = NoValue
    /\ (pc = "raised" /\ error.origin = "verify") =>
         /\ out_file \in {"absent", "empty"}
         /\ error.msg = IF out_file = "absent" THEN "output_not_created"
                        ELSE "output_empty"

C9_Witness ==
    /\ pc = "raised" /\ error.origin = "verify" /\ out_file = "empty"
    /\ reads = 2 /\ frame_count = 2 /\ Len(written) = 2

\* C10: in every result, detected_frames + failed_frames <= total_frames.
C10_CountersWithinTotal ==
    pc = "returned" =>
      result.detected_frames + result.failed_frames <= result.total_frames

\* C11: in every result, detection_rate and failed_rate lie in [0, 100]
\* (in hundredths of a percent: 0..10000).
C11_RatesWithinRange ==
    pc = "returned" =>
      /\ result.detection_rate \in 0..10000
      /\ result.failed_rate \in 0..10000

\* The messages of the VideoProcessingErrors process_video raises.
ValidationMessages ==
    {"not_found", "too_large", "empty", "cannot_open", "invalid_fps",
     "no_frames", "invalid_resolution", "too_long"}

\* The input is one _validate_video_file must reject: missing, empty,
\* oversized, unopenable, or without frames.
RejectedInput ==
    \/ ~input.exists
    \/ input.size = 0
    \/ input.size > MAX_FILE_SIZE_MB * BytesPerMB
    \/ ~input.opens
    \/ input.frame_count <= 0

\* C13: on an input that fails validation process_video raises from the
\* validation itself: no frame is read, no source or writer is opened, no
\* output file is created and no estimator is acquired.
C13_ValidationFirst ==
    RejectedInput =>
      /\ pc \in {"idle", "validate", "raised"}
      /\ pc = "raised" =>
           error.origin = "validate" /\ error.msg \in ValidationMessages
      /\ reads = 0 /\ written = <<>>
      /\ cap = "none" /\ out = "none" /\ out_file = "absent"
      /\ pose = "none" /\ pose_closes = 0

C13_Witness ==
    /\ pc = "raised" /\ error.msg = "no_frames"
    /\ input.frame_count = 0 /\ input.size > 0
    /\ reads = 0 /\ out_file = "absent"

\* C17: "Pose detector initialization failed" is raised exactly when
\* creating the estimator failed.
C17_InitErrorIffAcquireFailed ==
    pc = "raised" => (error.msg = "pose_init" <=> error.origin = "acquire")

\* The places where process_video raises according to C18: validation,
\* opening the source or the writer, estimator acquisition, output
\* verification.
FatalBoundaries ==
    {"validate", "open_cap", "mkdir", "open_writer", "acquire", "verify"}

RaisedAtBoundary ==
    pc = "raised" =>
      /\ error.origin \in FatalBoundaries \cup {"loop"}
      /\ error.msg \in ValidationMessages \cup
           {"open_after_validation", "writer_init", "processing_failed",
            "pose_init", "output_not_created", "output_empty"}

\* A frame the source delivered leaves the run in the loop, whatever failed
\* on it, with one more of its counters advanced by it.
FrameKeepsLoop ==
    (pc = "loop" /\ reads' = reads + 1) =>
      /\ pc' = "loop" /\ error' = error
      /\ cap' = "open" /\ out' = "open" /\ pose' = "acquired"
      /\ \/ frame_count' = frame_count + 1
         \/ failed_frames' = failed_frames + 1

C19_VisibilityAbsentIffNoDetection ==
    pc = "returned" =>
      (result.average_visibility = NoValue <=> result.detected_frames = 0)

\* One of the conditions C12 lists holds of file f.
Rejected(f) ==
    \/ ~f.exists
    \/ f.size = 0
    \/ f.size > MAX_FILE_SIZE_MB * BytesPerMB
    \/ ~f.opens
    \/ f.fps <= 0 \/ f.fps > 240
    \/ f.frame_count <= 0
    \/ f.width <= 0 \/ f.height <= 0
    \/ f.frame_count > 600 * f.fps

\* C12: _validate_video_file returns metadata exactly when the file is
\* there, not empty, at most 500 MB, can be opened, has 0 < fps <= 240, at
\* least one frame, positive width and height and lasts at most 600 s;
\* otherwise it raises. Returned metadata satisfies these limits.
C12_ValidateContract ==
    /\ vpc = "returned" =>
         /\ ~Rejected(vfile)
         /\ vresult.kind = "returned"
         /\ LET m == vresult.metadata
            IN  /\ 0 < m.fps /\ m.fps <= 240
                /\ m.frame_count > 0 /\ m.width > 0 /\ m.height > 0
                /\ m.duration <= 600 * 1000
                /\ m.file_size <= 500 * BytesPerMB
    /\ vpc = "raised" =>
         /\ Rejected(vfile)
         /\ vresult.kind = "raised" /\ vresult.msg \in ValidationMessages

C12_Witness ==
    /\ vpc = "returned"
    /\ vfile.fps = 240 /\ vfile.frame_count = 600 * 240
    /\ vfile.size = 500 * BytesPerMB

\* C14: when _validate_video_file returns or raises, the source it opened
\* is released (on cannot-open, on every metadata rejection and on
\* success), a source it never opened stays untouched, and no file was
\* written.
C14_ValidateReleases ==
    /\ vpc \in {"returned", "raised"} =>
         /\ vcap \in {"none", "released"}
         /\ vcap = "none" <=>
              (~vfile.exists \/ vfile.size = 0
                 \/ vfile.size > MAX_FILE_SIZE_MB * BytesPerMB)
    /\ vpc = "check" => vcap = "released"
    /\ vpc # "idle" => out_file = "absent" /\ written = <<>>

C14_Witness ==
    /\ vpc = "raised" /\ vresult.msg = "invalid_fps"
    /\ vfile.opens /\ vcap = "released"

\* C15: _get_output_codec keeps a requested extension that is in the
\* preference list (.mp4 or .avi), with an encoder of that extension.
C15_ExtensionPreserved ==
    (codec_result # NoValue /\ codec_result.kind = "returned"
       /\ extension \in {".mp4", ".avi"}) =>
      /\ codec_result.ext = extension
      /\ \E i \in 1..Len(codec_preferences) :
           /\ codec_preferences[i].codec = codec_result.fourcc
           /\ codec_preferences[i].ext = extension

\* C16: _get_output_codec never raises: whatever encoders the host has, it
\* returns an encoder and an extension.
C16_CodecNeverFails ==
    codec_result # NoValue => codec_result.kind = "returned"

\* C20: when process_video is called again on the same video, with the
\* same behaviour of the source and the estimator on each frame, and both
\* calls return a result, the two results have the same total_frames,
\* processed_frames and detection_rate, whatever the earlier call left
\* behind (counters, keypoints, a closed estimator, an output file).
C20_RepeatedRunsAgree ==
    (run >= 2 /\ pc = "returned" /\ prev_result # NoValue) =>
      /\ result.total_frames = prev_result.total_frames
      /\ result.processed_frames = prev_result.processed_frames
      /\ result.detection_rate = prev_result.detection_rate

C20_Witness ==
    /\ run = 2 /\ pc = "returned" /\ prev_result # NoValue
    /\ Len(script) = 2 /\ result.processed_frames = 2
    /\ result.detected_frames = 1
    /\ result.detection_rate = prev_result.detection_rate

\* C26: at the end of every run keypoints_count = detected_frames: one
\* keypoints entry per frame on which a skeleton was detected, also when
\* drawing the overlay failed on it.
C26_KeypointsPerDetection ==
    pc = "returned" => result.keypoints_count = result.detected_frames

\* C27, as stated: each keypoints entry carries the 0-based index of its
\* frame in the input stream, and the timestamp of that index.
C27_AsStated ==
    \A i \in 1..Len(keypoints_data) :
      /\ keypoints_data[i].frame = keypoints_data[i].src
      /\ keypoints_data[i].timestamp =
           (keypoints_data[i].src * 1000) \div input.fps

\* C27, amended: each keypoints entry carries the number of frames that
\* were processed before its frame (frame_count), which is the 0-based
\* position of the frame in the output when the writer refused none, and
\* the timestamp of that number; it is the index in the input stream when no
\* earlier frame failed to decode, also after estimation failures. The
\* frame numbers in the keypoint list are strictly increasing.
C27_KeypointIndex ==
    /\ \A i \in 1..Len(keypoints_data) :
         LET e == keypoints_data[i]
         IN  /\ e.frame \in 0..e.src
             /\ e.src - e.frame <= decode_failures
             /\ e.timestamp = (e.frame * 1000) \div input.fps
             /\ (dropped = 0 /\ pc # "idle") =>
                  /\ e.frame + 1 <= Len(written)
                  /\ written[e.frame + 1].src = e.src
    /\ \A i, j \in 1..Len(keypoints_data) :
         i < j => keypoints_data[i].frame < keypoints_data[j].frame

C27_Witness ==
    /\ pc = "returned" /\ reads = 2 /\ decode_failures = 1
    /\ Len(keypoints_data) = 1
    /\ keypoints_data[1].src = 1 /\ keypoints_data[1].frame = 0

\* C28: every frame given to the writer has the width and height the
\* writer was opened with, on every path that writes.
C28_WrittenFramesFit ==
    \A i \in 1..Len(written) : written[i].fits

\* C29: the frames written are an order-preserving subsequence of the
\* frames read, none written twice, and every frame read has been written,
\* refused by the writer or skipped before the next one is read.
C29_WrittenInInputOrder ==
    /\ \A i \in 1..Len(written) : written[i].src \in 0..(reads - 1)
    /\ \A i \in 1..(Len(written) - 1) : written[i].src < written[i + 1].src
    /\ Len(written) + dropped + decode_failures = reads

C29_Witness ==
    /\ pc = "loop" /\ reads = 2 /\ Len(written) = 2
    /\ written[1].src = 0 /\ written[2].src = 1
    /\ failed_frames > 0

\* A step of the loop that handles the next frame of the stream.
HandlesFrame == run > 0 /\ pc = "loop" /\ reads' = reads + 1

\* pose.process(image_rgb) is reached on frame f and raises.
EstimatorThrows(f) ==
    /\ f.kind # "null"
    /\ ~(f.kind = "mismatch" /\ "resize" \in f.raises)
    /\ "cvtColor" \notin f.raises
    /\ "process" \in f.raises

\* C24: a frame on which the estimator throws adds one to failed_frames
\* and one to frame_count, is written exactly once without overlay, leaves
\* detected_frames and the keypoint list as they were, and the loop goes on.
C24_EstimationFailure ==
    [][(HandlesFrame /\ EstimatorThrows(script[reads + 1])) =>
         /\ failed_frames' = failed_frames + 1
         /\ frame_count' = frame_count + 1
         /\ written' = Append(written, [src |-> reads, fits |-> TRUE,
                                        overlay |-> FALSE])
         /\ detected_frames' = detected_frames
         /\ keypoints_data' = keypoints_data
         /\ pc' = "loop"]_vars

\* The frames of the stream that decode.
Decoded == { i \in 1..Len(script) : script[i].kind # "null" }

\* A frame that fails to decode adds one to failed_frames and nothing else.
DecodeFailureSkipped ==
    (HandlesFrame /\ script[reads + 1].kind = "null") =>
      /\ failed_frames' = failed_frames + 1
      /\ written' = written /\ dropped' = dropped
      /\ frame_count' = frame_count
      /\ detected_frames' = detected_frames
      /\ keypoints_data' = keypoints_data
      /\ pc' = "loop" /\ cap' = "open" /\ out' = "open"

\* The loop ends at the end of the stream only, with every frame that
\* decodes processed.
WholeStreamRead ==
    (run > 0 /\ pc \in {"cleanup", "verify", "returned"}) =>
      /\ reads = Len(script)
      /\ frame_count = Cardinality(Decoded)

\* C25: a frame that fails to decode adds one to failed_frames, is not
\* written, and the loop continues: the frames after it are still read and
\* processed.
C25_DecodeFailure == [][DecodeFailureSkipped]_vars /\ []WholeStreamRead

C25_Witness ==
    /\ run = 1 /\ pc = "returned"
    /\ Len(script) = 2 /\ script[1].kind = "null"
    /\ failed_frames = 1 /\ frame_count = 1
    /\ Len(written) = 1 /\ written[1].src = 1

\* C30: a frame read adds one to at most one of detected_frames and
\* failed_frames, and at most one to it.
C30_OneOutcomePerFrame ==
    [][(pc = "loop" /\ reads' = reads + 1) =>
         (detected_frames' - detected_frames)
           + (failed_frames' - failed_frames) <= 1]_vars

\* C22: when process_video returns, the output_file it reports is the
\* path after the codec adjustment, which is the path the writer was opened
\* on, and the file at that path is not empty; also when the adjustment
\* changed the extension the caller asked for.
C22_ReportedOutputExists ==
    opc = "returned" =>
      /\ reported = writer_path
      /\ reported = codec_result.ext
      /\ disk[reported] = "nonempty"

C22_Witness ==
    /\ opc = "returned"
    /\ extension = ".avi" /\ reported = ".mp4"
    /\ disk[".mp4"] = "nonempty" /\ disk[".avi"] = "absent"

\* A cleanup was answered before request i.
CleanedBefore(i) == \E k \in 1..(i - 1) : api_log[k].op = "cleanup"

\* C23: after analyze answered 200, every download answers 200 until a
\* cleanup, whatever extension the codec negotiation chose; cleanup answers
\* 200, and every download after it answers 404.
C23_DownloadUntilCleanup ==
    (api_log # <<>> /\ api_log[1] = Answer("analyze", 200)) =>
      \A i \in 2..Len(api_log) :
        /\ api_log[i].op = "download" =>
             api_log[i].status = IF CleanedBefore(i) THEN 404 ELSE 200
        /\ api_log[i].op = "cleanup" => api_log[i].status = 200

\* C31: when analyze ends in a processing failure it answers 422 and no
\* file of the job remains on disk afterwards: neither the upload nor an
\* output file a failed attempt created, under whichever extension the
\* codec negotiation chose.
C31_FailureLeavesNoFile ==
    (api_log # <<>> /\ api_log[1].op = "analyze" /\ api_log[1].status # 200)
      => /\ api_log[1].status = 422
         /\ api_files = {}

\* C32: with max_retries <= 0, process_video_with_retry starts no attempt
\* and takes no sleep, never returns a result, and the error it raises
\* wraps no cause (None); with max_retries = 1 exactly one attempt runs and
\* no sleep is taken.
C32_DegenerateRetries ==
    /\ max_retries <= 0 =>
         /\ events = <<>> /\ pc = "idle"
         /\ rpc \in {"loop", "aborted"}
         /\ rpc = "loop" => ENABLED Exhausted /\ ~ENABLED StartAttempt
         /\ rpc = "aborted" =>
              outcome = [kind |-> "raised", msg |-> "all_attempts_failed",
                         cause |-> NoValue]
    /\ max_retries = 1 =>
         /\ Sleeps = <<>>
         /\ Len(Attempts) <= 1
         /\ rpc # "loop" => Attempts = << [ev |-> "attempt", n |-> 0] >>
         /\ (rpc = "loop" /\ attempt = 1) =>
              ENABLED Exhausted /\ ~ENABLED StartAttempt

C32_Witness ==
    /\ max_retries = MinRetries /\ rpc = "aborted"
    /\ events = <<>> /\ outcome.cause = NoValue

\* C21: with jobs running concurrently, on one analyzer or on one each,
\* every estimator is invoked only by the job that acquired it and only
\* while it is open, no estimator is invoked by two jobs, and a job that
\* returned has the counters, keypoints and written frames it has when it
\* runs alone on its stream.
C21_JobsIndependent ==
    /\ \A j \in Jobs :
         /\ \A e \in jobs[j].invoked :
              /\ e = jobs[j].pose
              /\ e \in 1..Len(estimators)
              /\ estimators[e].owner = j
         /\ (jobs[j].pc = "loop" /\ jobs[j].pose \in 1..Len(estimators))
              => ~estimators[jobs[j].pose].closed
         /\ jobs[j].pc = "returned" =>
              /\ jobs[j].c = RunAlone(jscript[j], Len(jscript[j]))
              /\ jobs[j].reads = Len(jscript[j])
    /\ \A j, k \in Jobs :
         j # k => jobs[j].invoked \cap jobs[k].invoked = {}

C21_Witness ==
    /\ jobs["a"].analyzer = jobs["b"].analyzer
    /\ jobs["a"].pc = "returned" /\ jobs["b"].pc = "loop"
    /\ jobs["a"].pose = 2 /\ jobs["b"].pose = 1
    /\ jobs["a"].invoked = {2} /\ jobs["b"].invoked = {1}
    /\ jobs["a"].c.detected_frames = 2 /\ jobs["b"].c.detected_frames = 1

====
